---- MODULE Spec2Model ----
(***************************************************************************)
(* State-machine model of USPACYClient (src/api.py): the notifications     *)
(* WebSocket session, its watchdog and its reconnect supervisor, as they   *)
(* run on the GUI thread, the per-transport receive threads, the watchdog  *)
(* threads and the reconnect worker threads.                               *)
(*                                                                         *)
(* Every thread has a position pc[thread]; one action is one stretch of    *)
(* code between two points where another thread can be scheduled.          *)
(* The websocket-client transport (WebSocketApp) is the environment:       *)
(* tstate[t] is what ws.sock.connected reports, and the callbacks          *)
(* on_open / on_message / on_close run on the transport's own thread.      *)
(***************************************************************************)
EXTENDS Integers, Sequences, FiniteSets, TLC

\* ---------------------------------------------------------------- bounds
MaxTransports == 3      \* transport objects in use at the same time
MaxWorkers    == 2      \* reconnect worker threads alive at the same time
MaxWatchdogs  == 2      \* watchdog threads alive at the same time
MaxEvents     == 3      \* environment events (sign-in, loss, raise, tick, shutdown)
MaxCount      == 2      \* largest attempt counter a worker may store
MaxFrames     == 3      \* inbound frames of the codec specification
MaxHandshakes == 2      \* inbound frames of the handshake specification
MaxAttempt    == 12     \* attempt counters drawn by the backoff specification
MaxBeats      == 2      \* inbound frames of the watchdog specification
MaxEmits      == 2      \* event frames of the round-trip specification
MaxDepth      == 4      \* nested calls the interpreter allows before RecursionError
MaxClock      == 125    \* seconds the watchdog specification runs for
WaitShort     == 30     \* a wait between two frames, in seconds
WaitLong      == 31     \* a slightly longer wait, in seconds

\* ------------------------------------------------------ program constants
max2_backoff          == 30      \* self._max2_backoff
DefaultPingInterval   == 25      \* self._ping2_interval_sec
DefaultPingTimeout    == 60      \* self._ping2_timeout_sec
DefaultPingIntervalMs == 25000   \* info.get("pingInterval", 25000)
DefaultPingTimeoutMs  == 60000   \* info.get("pingTimeout", 60000)
MinPingInterval       == 5       \* max(5, ...)
MinPingTimeout        == 10      \* max(10, ...)
ExpiryMargin          == 60      \* token_expiry - 60
Now0                  == 1000    \* time.time() when the client is built (> 0)
TickStep              == 61      \* seconds one clock advance adds
ExpireIn              == 100     \* expireInSeconds returned by the backend

NoToken == "none"
Tokens  == {"tok1", "tok2"}

Transports == 1..MaxTransports
Workers    == 1..MaxWorkers
Watchdogs  == 1..MaxWatchdogs

Main    == <<"m", 0>>
Sess(t) == <<"s", t>>
Work(w) == <<"w", w>>
Dog(k)  == <<"d", k>>
Threads == {Main} \cup {Sess(t) : t \in Transports}
                  \cup {Work(w) : w \in Workers}
                  \cup {Dog(k) : k \in Watchdogs}

VARIABLES
    access_token,          \* self.access_token (NoToken: None)
    refresh_token,         \* self.refresh_token
    token_expiry,          \* self.token_expiry
    notifications_handler, \* self.notifications_handler ("none": None)
    ws_notif,              \* self.ws_notif (0: None, else a transport)
    ws2_should_run,        \* self._ws2_should_run
    ping2_interval_sec,    \* self._ping2_interval_sec
    ping2_timeout_sec,     \* self._ping2_timeout_sec
    watchdog2_thread,      \* self._watchdog2_thread (0: None)
    last2_rx_ts,           \* self._last2_rx_ts
    reconnect2_attempt,    \* self._reconnect2_attempt
    tstate,                \* per transport: unused / connecting / connected / closed
    pc,                    \* position of every thread
    wl,                    \* per worker: the locals of do_reconnect
    now,                   \* time.time()
    events,                \* environment events so far
    wire,                  \* observed wire and handler events, in order
    logging                \* whether wire is being recorded

tokenVars  == <<access_token, refresh_token, token_expiry>>
pingVars   == <<ping2_interval_sec, ping2_timeout_sec>>
clientVars == <<tokenVars, notifications_handler, ws_notif, ws2_should_run, pingVars,
                watchdog2_thread, last2_rx_ts, reconnect2_attempt>>
envVars    == <<now, events, wire, logging>>
\* The user and the network act at most MaxEvents times.
Event == events < MaxEvents /\ events' = events + 1

vars == <<clientVars, tstate, pc, wl, envVars>>

\* ------------------------------------------------------------- helpers
Min(a, b) == IF a < b THEN a ELSE b
Max(a, b) == IF a > b THEN a ELSE b

RECURSIVE Pow2(_)
Pow2(n) == IF n <= 0 THEN 1 ELSE 2 * Pow2(n - 1)

\* self.ws_notif and getattr(self.ws_notif, "sock", None) and self.ws_notif.sock.connected
Connected == ws_notif # 0 /\ tstate[ws_notif] = "connected"

\* self.access_token and time.time() > self.token_expiry - 60
NearExpiry == access_token # NoToken /\ now > token_expiry - ExpiryMargin

\* refresh_access_token() called under NearExpiry: with a refresh token held it
\* calls _make_request, whose own expiry check calls refresh_access_token again
\* with nothing changed, until the interpreter raises RecursionError; without a
\* refresh token it returns False at once.
RefreshRaises == NearExpiry /\ refresh_token # NoToken

\* thread.is_alive() of the thread self._watchdog2_thread refers to
WatchdogAlive == watchdog2_thread # 0 /\ pc[Dog(watchdog2_thread)] # "unused"

\* The locals of do_reconnect: immediate (the closure's argument), delay, the
\* attempt counter read for the delay, and the value loaded by "+= 1".
NoLocals == [immediate |-> FALSE, delay |-> 0, n |-> 0, tmp |-> 0]

\* A transport whose thread has ended and which self.ws_notif no longer refers to
\* is garbage: its id is free again.
Garbage(ts, p, ws, t) == ts[t] = "closed" /\ p[Sess(t)] = "done" /\ ws # t
TidyT(ts, p, ws) ==
    [t \in Transports |-> IF Garbage(ts, p, ws, t) THEN "unused" ELSE ts[t]]
TidyP(ts, p, ws) ==
    [th \in Threads |-> IF th[1] = "s" /\ Garbage(ts, p, ws, th[2]) THEN "unused" ELSE p[th]]
\* The locals of a worker thread that has ended are gone.
TidyW(l, p) ==
    [w \in Workers |-> IF p[Work(w)] = "unused" THEN NoLocals ELSE l[w]]

FreeT(t) == tstate[t] = "unused" /\ pc[Sess(t)] = "unused"
HasFreeT == \E t \in Transports : FreeT(t)
NewT     == CHOOSE t \in Transports : FreeT(t) /\ \A u \in Transports : FreeT(u) => t <= u

HasFreeW == \E w \in Workers : pc[Work(w)] = "unused"
NewW     == CHOOSE w \in Workers : pc[Work(w)] = "unused"
                /\ \A u \in Workers : pc[Work(u)] = "unused" => w <= u

HasFreeK == \E k \in Watchdogs : pc[Dog(k)] = "unused"
NewK     == CHOOSE k \in Watchdogs : pc[Dog(k)] = "unused"
                /\ \A u \in Watchdogs : pc[Dog(u)] = "unused" => k <= u

\* WebSocketApp.close() called from another thread: the socket is closed and the
\* transport's own thread tears down and runs on_close. A thread that is inside
\* on_open finishes it first.
ClosedState(t) ==
    IF t # 0 /\ tstate[t] \in {"connecting", "connected"}
    THEN [tstate EXCEPT ![t] = "closed"]
    ELSE tstate
ClosedPc(p, t) ==
    IF t # 0 /\ tstate[t] \in {"connecting", "connected"}
       /\ p[Sess(t)] \in {"connecting", "read"}
    THEN [p EXCEPT ![Sess(t)] = "close_stop"]
    ELSE p

\* Where a thread continues after connect_notifications_websocket returns, after it
\* raises, and after _schedule2_reconnect returns.
AfterConnect(self)  == IF self = Main THEN "idle" ELSE "unused"
AfterRaise(self)    == IF self = Main THEN "idle" ELSE "except"
AfterSchedule(self) == IF self[1] = "s" THEN "done" ELSE "unused"

Connectors == {Main} \cup {Work(w) : w \in Workers}
Schedulers == {Sess(t) : t \in Transports} \cup {Work(w) : w \in Workers}

\* ------------------------------------------------------------------ Init
\* USPACYClient.__init__
ClientInit ==
    /\ access_token = NoToken
    /\ refresh_token = NoToken
    /\ token_expiry = 0
    /\ notifications_handler = "none"
    /\ ws_notif = 0
    /\ ws2_should_run = FALSE
    /\ ping2_interval_sec = DefaultPingInterval
    /\ ping2_timeout_sec = DefaultPingTimeout
    /\ watchdog2_thread = 0
    /\ last2_rx_ts = 0
    /\ reconnect2_attempt = 0

NoThreads ==
    /\ tstate = [t \in Transports |-> "unused"]
    /\ pc = [th \in Threads |-> IF th = Main THEN "idle" ELSE "unused"]
    /\ wl = [w \in Workers |-> NoLocals]

Init ==
    /\ ClientInit
    /\ NoThreads
    /\ now = Now0
    /\ events = 0
    /\ wire = <<>>
    /\ logging = FALSE

\* ------------------------------------------------------------ GUI thread
\* set_notifications_handler(handler)
SetNotificationsHandler(h) ==
    /\ pc[Main] = "idle"
    /\ notifications_handler # h
    /\ notifications_handler' = h
    /\ UNCHANGED <<tokenVars, ws_notif, ws2_should_run, pingVars, watchdog2_thread,
                   last2_rx_ts, reconnect2_attempt>>
    /\ UNCHANGED <<tstate, pc, wl, envVars>>

\* sign_in up to the call of connect_notifications_websocket (lines 106-130), when
\* the backend answers with a jwt. A sign_in that is refused returns False and one
\* whose first request finds the held token close to expiry with a refresh token
\* held raises: both change nothing. The requests that follow the sign-in (users,
\* settings, initial notifications) leave the session state alone.
SignIn(tok) ==
    /\ pc[Main] = "idle"
    /\ ~RefreshRaises
    /\ access_token' = tok
    /\ refresh_token' = tok
    /\ token_expiry' = now + ExpireIn
    /\ pc' = [pc EXCEPT ![Main] = "conn_guard"]
    /\ UNCHANGED <<notifications_handler, ws_notif, ws2_should_run, pingVars,
                   watchdog2_thread, last2_rx_ts, reconnect2_attempt>>
    /\ UNCHANGED <<tstate, wl, now, wire, logging>>
    /\ Event

\* shutdown_notifications, line 261
ShutdownFlag ==
    /\ pc[Main] = "idle"
    /\ ws2_should_run' = FALSE
    /\ pc' = [pc EXCEPT ![Main] = "shut_close"]
    /\ UNCHANGED <<tokenVars, notifications_handler, ws_notif, pingVars,
                   watchdog2_thread, last2_rx_ts, reconnect2_attempt>>
    /\ UNCHANGED <<tstate, wl, now, wire, logging>>
    /\ Event

\* shutdown_notifications, lines 264-268
ShutdownClose ==
    /\ pc[Main] = "shut_close"
    /\ tstate' = ClosedState(ws_notif)
    /\ pc' = [ClosedPc(pc, ws_notif) EXCEPT ![Main] = "shut_clear"]
    /\ UNCHANGED <<clientVars, wl, envVars>>

\* shutdown_notifications, lines 269-281: the joins are bounded by a timeout and
\* change nothing; then the references are dropped. The application quits.
ShutdownClear ==
    /\ pc[Main] = "shut_clear"
    /\ ws_notif' = 0
    /\ watchdog2_thread' = 0
    /\ LET p == [pc EXCEPT ![Main] = "stopped"]
       IN /\ tstate' = TidyT(tstate, p, 0)
          /\ pc' = TidyP(tstate, p, 0)
    /\ UNCHANGED <<tokenVars, notifications_handler, ws2_should_run, pingVars,
                   last2_rx_ts, reconnect2_attempt>>
    /\ UNCHANGED <<wl, envVars>>

ShutdownRequested == pc[Main] \in {"shut_close", "shut_clear", "stopped"}

\* ------------------------------------- connect_notifications_websocket
\* the guard with the counter reset of line 252 moved before it
ConnectGuardResets(self) ==
    /\ pc[self] = "conn_guard"
    /\ pc' = [pc EXCEPT ![self] = IF Connected THEN "conn_skip" ELSE "conn_close"]
    /\ reconnect2_attempt' = 0
    /\ UNCHANGED <<tokenVars, notifications_handler, ws_notif, ws2_should_run, pingVars,
                   watchdog2_thread, last2_rx_ts>>
    /\ UNCHANGED <<tstate, wl, envVars>>

\* line 231: the idempotency guard
ConnectGuard(self) ==
    /\ pc[self] = "conn_guard"
    /\ pc' = [pc EXCEPT ![self] = IF Connected THEN "conn_skip" ELSE "conn_close"]
    /\ UNCHANGED <<clientVars, tstate, wl, envVars>>

\* lines 232-233: the notice is printed and the call returns
ConnectSkip(self) ==
    /\ pc[self] = "conn_skip"
    /\ LET p == [pc EXCEPT ![self] = AfterConnect(self)]
       IN /\ pc' = p
          /\ wl' = TidyW(wl, p)
    /\ UNCHANGED <<clientVars, tstate, envVars>>

\* lines 235-239: close the previous transport object
ConnectCloseOld(self) ==
    /\ pc[self] = "conn_close"
    /\ tstate' = ClosedState(ws_notif)
    /\ pc' = [ClosedPc(pc, ws_notif) EXCEPT ![self] = "conn_create"]
    /\ UNCHANGED <<clientVars, wl, envVars>>

\* lines 241-256: a new WebSocketApp, the flags, the receive thread started
ConnectCreate(self) ==
    /\ pc[self] = "conn_create"
    /\ HasFreeT
    /\ ws_notif' = NewT
    /\ ws2_should_run' = TRUE
    /\ reconnect2_attempt' = 0
    /\ LET ts == [tstate EXCEPT ![NewT] = "connecting"]
           p  == [pc EXCEPT ![self] = AfterConnect(self), ![Sess(NewT)] = "connecting"]
       IN /\ tstate' = TidyT(ts, p, NewT)
          /\ pc' = TidyP(ts, p, NewT)
          /\ wl' = TidyW(wl, p)
    /\ UNCHANGED <<tokenVars, notifications_handler, pingVars, watchdog2_thread,
                   last2_rx_ts>>
    /\ UNCHANGED envVars

\* lines 243-249 raise: nothing was assigned
ConnectRaiseEarly(self) ==
    /\ pc[self] = "conn_create"
    /\ pc' = [pc EXCEPT ![self] = AfterRaise(self)]
    /\ UNCHANGED <<clientVars, tstate, wl, now, wire, logging>>
    /\ Event

\* lines 253-256 raise (the thread cannot be started): the transport object and
\* the flags are already assigned, no receive thread runs it
ConnectRaiseLate(self) ==
    /\ pc[self] = "conn_create"
    /\ HasFreeT
    /\ ws_notif' = NewT
    /\ ws2_should_run' = TRUE
    /\ reconnect2_attempt' = 0
    /\ LET ts == [tstate EXCEPT ![NewT] = "closed"]
           p  == [pc EXCEPT ![self] = AfterRaise(self), ![Sess(NewT)] = "done"]
       IN /\ tstate' = TidyT(ts, p, NewT)
          /\ pc' = TidyP(ts, p, NewT)
    /\ UNCHANGED <<tokenVars, notifications_handler, pingVars, watchdog2_thread,
                   last2_rx_ts>>
    /\ UNCHANGED <<wl, now, wire, logging>>
    /\ Event

\* ------------------------------------------------ the transport's thread
\* run_forever: the connection is established
TransportConnected(t) ==
    /\ pc[Sess(t)] = "connecting"
    /\ tstate[t] = "connecting"
    /\ tstate' = [tstate EXCEPT ![t] = "connected"]
    /\ pc' = [pc EXCEPT ![Sess(t)] = "open"]
    /\ UNCHANGED <<clientVars, wl, envVars>>

\* run_forever: the connection attempt fails; on_ws2_error (lines 361-366) only
\* logs, then the transport tears down and runs on_close
TransportRefused(t) ==
    /\ pc[Sess(t)] = "connecting"
    /\ tstate[t] = "connecting"
    /\ tstate' = [tstate EXCEPT ![t] = "closed"]
    /\ pc' = [pc EXCEPT ![Sess(t)] = "close_stop"]
    /\ UNCHANGED <<clientVars, wl, now, wire, logging>>
    /\ Event

\* the server closes the connection or the transport fails; on_ws2_error only logs
TransportLost(t) ==
    /\ tstate[t] = "connected"
    /\ tstate' = [tstate EXCEPT ![t] = "closed"]
    /\ pc' = [pc EXCEPT ![Sess(t)] = IF @ = "read" THEN "close_stop" ELSE @]
    /\ UNCHANGED <<clientVars, wl, now, wire, logging>>
    /\ Event

\* on_ws2_open with _start_watchdog2 (lines 355-359, 306-309)
OnWs2Open(t) ==
    /\ pc[Sess(t)] = "open"
    /\ WatchdogAlive \/ HasFreeK
    /\ last2_rx_ts' = now
    /\ LET after == IF tstate[t] = "connected" THEN "read" ELSE "close_stop"
       IN IF WatchdogAlive
          THEN /\ pc' = [pc EXCEPT ![Sess(t)] = after]
               /\ UNCHANGED watchdog2_thread
          ELSE /\ watchdog2_thread' = NewK
               /\ pc' = [pc EXCEPT ![Sess(t)] = after, ![Dog(NewK)] = "wd_check"]
    /\ UNCHANGED <<tokenVars, notifications_handler, ws_notif, ws2_should_run, pingVars,
                   reconnect2_attempt>>
    /\ UNCHANGED <<tstate, wl, envVars>>

\* on_ws2_close, line 370: _stop_watchdog2 (lines 311-312)
OnWs2CloseStopWatchdog(t) ==
    /\ pc[Sess(t)] = "close_stop"
    /\ ws2_should_run' = FALSE
    /\ pc' = [pc EXCEPT ![Sess(t)] = "close_check"]
    /\ UNCHANGED <<tokenVars, notifications_handler, ws_notif, pingVars,
                   watchdog2_thread, last2_rx_ts, reconnect2_attempt>>
    /\ UNCHANGED <<tstate, wl, envVars>>

\* on_ws2_close, lines 371-375: return when the flag is clear; else clear it and
\* call _schedule2_reconnect(immediate=True)
OnWs2CloseCheck(t) ==
    /\ pc[Sess(t)] = "close_check"
    /\ LET p == [pc EXCEPT ![Sess(t)] = IF ~ws2_should_run THEN "done" ELSE "sched_guard"]
       IN /\ tstate' = TidyT(tstate, p, ws_notif)
          /\ pc' = TidyP(tstate, p, ws_notif)
    /\ ws2_should_run' = FALSE
    /\ UNCHANGED <<tokenVars, notifications_handler, ws_notif, pingVars,
                   watchdog2_thread, last2_rx_ts, reconnect2_attempt>>
    /\ UNCHANGED <<wl, envVars>>

\* ------------------------------------------------------------ frame codec
\* A frame is its leading type characters and the text after them, parsed as
\* json.loads parses it: no text, text that is not JSON, or a JSON value.
NoText  == [k |-> "none"]
BadText == [k |-> "bad"]
JNull   == [k |-> "null"]
JNum(v) == [k |-> "num", v |-> v]
JStr(v) == [k |-> "str", v |-> v]
JArr(e) == [k |-> "arr", e |-> e]
JObj(f) == [k |-> "obj", f |-> f]
Frame(head, body) == [head |-> head, body |-> body]

\* message.startswith(prefix)
StartsWith(m, prefix) ==
    Len(m.head) >= Len(prefix) /\ SubSeq(m.head, 1, Len(prefix)) = prefix

\* The branch of on_ws2_message a frame takes (lines 387-442), in the order tested.
Dispatch(m) ==
    IF StartsWith(m, <<"0">>) THEN "handshake"
    ELSE IF StartsWith(m, <<"2">>) THEN "probe"
    ELSE IF m.head = <<"3">> /\ m.body.k = "none" THEN "ack"
    ELSE IF StartsWith(m, <<"4", "0">>) THEN "opened"
    ELSE IF StartsWith(m, <<"4", "1">>) THEN "closed"
    ELSE IF StartsWith(m, <<"4", "2">>) THEN "event"
    ELSE "ignored"

\* info.get(key, default) for a parsed object
Get(info, key, default) == IF key \in DOMAIN info.f THEN info.f[key] ELSE JNum(default)

\* the handshake settings without the floors of lines 391-392
HandshakePingUnclamped(m) ==
    LET info == m.body
        pi == IF info.k = "obj" THEN Get(info, "pingInterval", DefaultPingIntervalMs) ELSE JNull
        pt == IF info.k = "obj" THEN Get(info, "pingTimeout", DefaultPingTimeoutMs) ELSE JNull
    IN IF pi.k = "num" /\ pt.k = "num"
       THEN [interval |-> pi.v \div 1000, timeout |-> pt.v \div 1000]
       ELSE [interval |-> DefaultPingInterval, timeout |-> DefaultPingTimeout]

\* the handshake settings with the floors applied to the milliseconds, before
\* the division
HandshakePingFloorsMs(m) ==
    LET info == m.body
        pi == IF info.k = "obj" THEN Get(info, "pingInterval", DefaultPingIntervalMs) ELSE JNull
        pt == IF info.k = "obj" THEN Get(info, "pingTimeout", DefaultPingTimeoutMs) ELSE JNull
    IN IF pi.k = "num" /\ pt.k = "num"
       THEN [interval |-> Max(MinPingInterval, pi.v) \div 1000,
             timeout  |-> Max(MinPingTimeout, pt.v) \div 1000]
       ELSE [interval |-> DefaultPingInterval, timeout |-> DefaultPingTimeout]

\* lines 389-397: the ping settings a handshake frame leaves. json.loads raises on
\* text that is not JSON, .get on a value that is no object, int() on a value that
\* is no number: each is caught and resets both settings.
HandshakePing(m) ==
    LET info == m.body
        pi == IF info.k = "obj" THEN Get(info, "pingInterval", DefaultPingIntervalMs) ELSE JNull
        pt == IF info.k = "obj" THEN Get(info, "pingTimeout", DefaultPingTimeoutMs) ELSE JNull
    IN IF pi.k = "num" /\ pt.k = "num"
       THEN [interval |-> Max(MinPingInterval, pi.v \div 1000),
             timeout  |-> Max(MinPingTimeout, pt.v \div 1000)]
       ELSE [interval |-> DefaultPingInterval, timeout |-> DefaultPingTimeout]

\* a channel-open frame without the token
AuthFrameAnonymous(token) == Frame(<<"4", "0">>, JObj([token |-> JStr(NoToken)]))

\* line 401: f'40{{"token":"{self.access_token}"}}'
AuthFrame(token) == Frame(<<"4", "0">>, JObj([token |-> JStr(token)]))
\* line 411
PongFrame == Frame(<<"3">>, NoText)

\* a reply that acknowledges only bare probes
ReplyBareProbe(m, token) ==
    IF Dispatch(m) = "handshake"
    THEN IF token # NoToken THEN <<AuthFrame(token)>> ELSE <<>>
    ELSE IF Dispatch(m) = "probe" /\ m.body.k = "none" THEN <<PongFrame>> ELSE <<>>

\* a reply that writes the channel-open frame twice
ReplyAuthTwice(m, token) ==
    IF Dispatch(m) = "handshake"
    THEN IF token # NoToken THEN <<AuthFrame(token), AuthFrame(token)>> ELSE <<>>
    ELSE IF Dispatch(m) = "probe" THEN <<PongFrame>> ELSE <<>>

\* a reply that also answers an acknowledgment
ReplyAcksAck(m, token) ==
    IF Dispatch(m) = "handshake"
    THEN IF token # NoToken THEN <<AuthFrame(token)>> ELSE <<>>
    ELSE IF Dispatch(m) \in {"probe", "ack"} THEN <<PongFrame>> ELSE <<>>

\* lines 400-402 and 409-413: the frames _send_ws writes for an inbound frame
Reply(m, token) ==
    IF Dispatch(m) = "handshake"
    THEN IF token # NoToken THEN <<AuthFrame(token)>> ELSE <<>>
    ELSE IF Dispatch(m) = "probe" THEN <<PongFrame>> ELSE <<>>

\* a delivery that hands the pair over in the wrong order
EventPairSwapped(m) ==
    LET d == m.body
    IN IF d.k = "arr" /\ Len(d.e) >= 2 THEN << <<d.e[2], d.e[1]>> >>
       ELSE IF d.k = "str" /\ Len(d.v) >= 2 THEN << <<JStr(<<d.v[2]>>), JStr(<<d.v[1]>>)>> >>
       ELSE <<>>

\* lines 430-433: event_data[0] and event_data[1] of the parsed payload. A JSON
\* array or a JSON string of two or more elements can be indexed; anything else
\* raises and the frame is dropped.
EventPair(m) ==
    LET d == m.body
    IN IF d.k = "arr" /\ Len(d.e) >= 2 THEN << <<d.e[1], d.e[2]>> >>
       ELSE IF d.k = "str" /\ Len(d.v) >= 2 THEN << <<JStr(<<d.v[1]>>), JStr(<<d.v[2]>>)>> >>
       ELSE <<>>

\* lines 428-442: the calls of notifications_handler.handle for an inbound frame
Delivered(m, handler) ==
    IF Dispatch(m) = "event" /\ handler # "none" THEN EventPair(m) ELSE <<>>

\* The exception met while a frame is handled: int() or .get of a handshake that
\* is not an object of numbers, json.loads of an event text that is not JSON,
\* event_data[0] or [1] of a value that cannot be indexed (IndexError, KeyError,
\* TypeError), or the one a faulty handler raises from handle().
Raises(m, handler) ==
    IF Dispatch(m) = "handshake"
    THEN IF m.body.k = "obj"
            /\ Get(m.body, "pingInterval", DefaultPingIntervalMs).k = "num"
            /\ Get(m.body, "pingTimeout", DefaultPingTimeoutMs).k = "num"
         THEN "none" ELSE "HandshakeError"
    ELSE IF Dispatch(m) = "event"
    THEN IF m.body.k \in {"none", "bad"} THEN "JSONDecodeError"
         ELSE IF EventPair(m) = <<>> THEN "IndexError"
         ELSE IF handler = "faulty" THEN "HandlerError"
         ELSE "none"
    ELSE "none"

\* the except clauses without the one around handle() and the outer one
CaughtParseOnly(exc) == exc \in {"HandshakeError", "JSONDecodeError"}

\* the except clauses of on_ws2_message: line 394 (handshake), line 437 (handle),
\* line 440 (json.JSONDecodeError), line 444 (anything else)
Caught(exc) ==
    \/ exc = "HandshakeError"
    \/ exc = "HandlerError"
    \/ exc = "JSONDecodeError"
    \/ exc \in {"IndexError"}

\* an exception that leaves on_ws2_message
Escapes(m, handler) == Raises(m, handler) # "none" /\ ~Caught(Raises(m, handler))
EscapeEvents(t, m) ==
    IF Escapes(m, notifications_handler)
    THEN <<[ev |-> "escape", t |-> t, exc |-> Raises(m, notifications_handler)]>>
    ELSE <<>>

RxEvent(t, m)   == [ev |-> "rx", t |-> t, frame |-> m, token |-> access_token,
                    handler |-> notifications_handler]
TxEvents(t, fs) == [i \in 1..Len(fs) |-> [ev |-> "tx", t |-> t, frame |-> fs[i]]]
HandleEvents(t, ps) ==
    [i \in 1..Len(ps) |-> [ev |-> "handle", t |-> t, etype |-> ps[i][1], payload |-> ps[i][2]]]

\* a timestamp that only channel events refresh
RxStampEventsOnly(m) == IF Dispatch(m) = "event" THEN now ELSE last2_rx_ts

\* line 384: time.time(), stored before the frame is looked at
RxStamp(m) == now

\* on_ws2_message (lines 377-445)
OnWs2Message(t, m) ==
    /\ pc[Sess(t)] = "read"
    /\ tstate[t] = "connected"
    /\ last2_rx_ts' = RxStamp(m)
    /\ IF Dispatch(m) = "handshake"
       THEN /\ ping2_interval_sec' = HandshakePing(m).interval
            /\ ping2_timeout_sec' = HandshakePing(m).timeout
            /\ reconnect2_attempt' = 0
       ELSE UNCHANGED <<pingVars, reconnect2_attempt>>
    /\ wire' = IF logging
               THEN wire \o <<RxEvent(t, m)>> \o TxEvents(t, Reply(m, access_token))
                         \o HandleEvents(t, Delivered(m, notifications_handler))
                         \o EscapeEvents(t, m)
               ELSE wire
    /\ UNCHANGED <<tokenVars, notifications_handler, ws_notif, ws2_should_run,
                   watchdog2_thread>>
    /\ UNCHANGED <<tstate, pc, wl, now, events, logging>>

\* 0{"pingInterval":25000,"pingTimeout":60000}
ServerHandshake ==
    Frame(<<"0">>, JObj([pingInterval |-> JNum(25000), pingTimeout |-> JNum(60000)]))

\* ------------------------------------------------- _schedule2_reconnect
\* immediate is True when on_ws2_close calls, False when do_reconnect calls
Immediate(self) == self[1] = "s"

\* lines 316-318: no reconnect while the transport reports connected
ScheduleGuard(self) ==
    /\ pc[self] = "sched_guard"
    /\ LET p == [pc EXCEPT ![self] = IF Connected THEN AfterSchedule(self) ELSE "sched_lock"]
       IN /\ tstate' = TidyT(tstate, p, ws_notif)
          /\ pc' = TidyP(tstate, p, ws_notif)
          /\ wl' = TidyW(wl, p)
    /\ UNCHANGED <<clientVars, envVars>>

\* lines 320-323 under self._reconnect2_lock, then line 353 starts do_reconnect
ScheduleLocked(self) ==
    /\ pc[self] = "sched_lock"
    /\ ws2_should_run \/ HasFreeW
    /\ LET spawn == ~ws2_should_run
           p0 == [pc EXCEPT ![self] = AfterSchedule(self)]
           p  == IF spawn THEN [p0 EXCEPT ![Work(NewW)] = "delay"] ELSE p0
           l  == IF spawn
                 THEN [wl EXCEPT ![NewW] = [NoLocals EXCEPT !.immediate = Immediate(self)]]
                 ELSE wl
       IN /\ tstate' = TidyT(tstate, p, ws_notif)
          /\ pc' = TidyP(tstate, p, ws_notif)
          /\ wl' = TidyW(l, p)
    /\ ws2_should_run' = TRUE
    /\ UNCHANGED <<tokenVars, notifications_handler, ws_notif, pingVars,
                   watchdog2_thread, last2_rx_ts, reconnect2_attempt>>
    /\ UNCHANGED envVars

\* ----------------------------------------------------------- do_reconnect
\* the delay without the cap of max2_backoff
BackoffUncapped(immediate, attempt) ==
    IF immediate \/ attempt = 0
    THEN 0
    ELSE Pow2(Max(0, attempt))

\* lines 327-330
Backoff(immediate, attempt) ==
    IF immediate \/ attempt = 0
    THEN 0
    ELSE Min(max2_backoff, Pow2(Max(0, attempt)))

\* lines 327-333: the delay is computed and slept
WorkerDelay(w) ==
    /\ pc[Work(w)] = "delay"
    /\ wl' = [wl EXCEPT ![w].n = reconnect2_attempt,
                        ![w].delay = Backoff(wl[w].immediate, reconnect2_attempt)]
    /\ pc' = [pc EXCEPT ![Work(w)] = "recheck"]
    /\ UNCHANGED <<clientVars, tstate, envVars>>

\* the re-check followed at once by the increment, the refresh left out
WorkerRecheckNoRefresh(w) ==
    /\ pc[Work(w)] = "recheck"
    /\ IF Connected
       THEN /\ ws2_should_run' = FALSE
            /\ reconnect2_attempt' = 0
       ELSE UNCHANGED <<ws2_should_run, reconnect2_attempt>>
    /\ LET p == [pc EXCEPT ![Work(w)] = IF Connected THEN "unused" ELSE "inc_load"]
       IN /\ pc' = p
          /\ wl' = TidyW(wl, p)
    /\ UNCHANGED <<tokenVars, notifications_handler, ws_notif, pingVars,
                   watchdog2_thread, last2_rx_ts>>
    /\ UNCHANGED <<tstate, envVars>>

\* the re-check that abandons the cycle and leaves the counter as it is
WorkerRecheckKeepsCount(w) ==
    /\ pc[Work(w)] = "recheck"
    /\ IF Connected
       THEN ws2_should_run' = FALSE
       ELSE UNCHANGED ws2_should_run
    /\ LET p == [pc EXCEPT ![Work(w)] = IF Connected THEN "unused" ELSE "refresh"]
       IN /\ pc' = p
          /\ wl' = TidyW(wl, p)
    /\ UNCHANGED <<tokenVars, notifications_handler, ws_notif, pingVars,
                   watchdog2_thread, last2_rx_ts, reconnect2_attempt>>
    /\ UNCHANGED <<tstate, envVars>>

\* lines 335-339: if the connection came back while the worker slept, the cycle is
\* abandoned.
WorkerRecheck(w) ==
    /\ pc[Work(w)] = "recheck"
    /\ IF Connected
       THEN /\ ws2_should_run' = FALSE
            /\ reconnect2_attempt' = 0
       ELSE UNCHANGED <<ws2_should_run, reconnect2_attempt>>
    /\ LET p == [pc EXCEPT ![Work(w)] = IF Connected THEN "unused" ELSE "refresh"]
       IN /\ pc' = p
          /\ wl' = TidyW(wl, p)
    /\ UNCHANGED <<tokenVars, notifications_handler, ws_notif, pingVars,
                   watchdog2_thread, last2_rx_ts>>
    /\ UNCHANGED <<tstate, envVars>>

\* lines 341-342: the token is refreshed when close to expiry. The call returns
\* False (no refresh token held), or raises out of do_reconnect and ends the
\* thread; when the token is not close to expiry nothing is called.
WorkerRefresh(w) ==
    /\ pc[Work(w)] = "refresh"
    /\ LET p == [pc EXCEPT ![Work(w)] = IF RefreshRaises THEN "unused" ELSE "inc_load"]
       IN /\ pc' = p
          /\ wl' = TidyW(wl, p)
    /\ UNCHANGED <<clientVars, tstate, envVars>>

\* line 344, the load of self._reconnect2_attempt
WorkerIncLoad(w) ==
    /\ pc[Work(w)] = "inc_load"
    /\ wl' = [wl EXCEPT ![w].tmp = reconnect2_attempt]
    /\ pc' = [pc EXCEPT ![Work(w)] = "inc_store"]
    /\ UNCHANGED <<clientVars, tstate, envVars>>

\* line 344, the store; line 346 calls connect_notifications_websocket
WorkerIncStore(w) ==
    /\ pc[Work(w)] = "inc_store"
    /\ reconnect2_attempt' = wl[w].tmp + 1
    /\ pc' = [pc EXCEPT ![Work(w)] = "conn_guard"]
    /\ UNCHANGED <<tokenVars, notifications_handler, ws_notif, ws2_should_run, pingVars,
                   watchdog2_thread, last2_rx_ts>>
    /\ UNCHANGED <<tstate, wl, envVars>>

\* lines 347-351: connect raised; the flag is cleared and _schedule2_reconnect(False)
\* is called
WorkerExcept(w) ==
    /\ pc[Work(w)] = "except"
    /\ ws2_should_run' = FALSE
    /\ pc' = [pc EXCEPT ![Work(w)] = "sched_guard"]
    /\ UNCHANGED <<tokenVars, notifications_handler, ws_notif, pingVars,
                   watchdog2_thread, last2_rx_ts, reconnect2_attempt>>
    /\ UNCHANGED <<tstate, wl, envVars>>

\* -------------------------------------------------------- watchdog loop
\* line 289: the loop condition
WatchdogCheck(k) ==
    /\ pc[Dog(k)] = "wd_check"
    /\ pc' = [pc EXCEPT ![Dog(k)] = IF ws2_should_run /\ Connected THEN "wd_sleep" ELSE "unused"]
    /\ UNCHANGED <<clientVars, tstate, wl, envVars>>

\* the poll with the comparison of line 295 made non-strict
WatchdogPollEager(k) ==
    /\ pc[Dog(k)] = "wd_sleep"
    /\ IF last2_rx_ts > 0 /\ now - last2_rx_ts >= ping2_timeout_sec
       THEN /\ tstate' = ClosedState(ws_notif)
            /\ pc' = [ClosedPc(pc, ws_notif) EXCEPT ![Dog(k)] = "unused"]
       ELSE /\ pc' = [pc EXCEPT ![Dog(k)] = "wd_check"]
            /\ UNCHANGED tstate
    /\ UNCHANGED <<clientVars, wl, envVars>>

\* a poll that also writes a probe frame to the transport while it is not idle
WatchdogPollProbes(k) ==
    /\ pc[Dog(k)] = "wd_sleep"
    /\ IF last2_rx_ts > 0 /\ now - last2_rx_ts > ping2_timeout_sec
       THEN /\ tstate' = ClosedState(ws_notif)
            /\ pc' = [ClosedPc(pc, ws_notif) EXCEPT ![Dog(k)] = "unused"]
            /\ UNCHANGED wire
       ELSE /\ pc' = [pc EXCEPT ![Dog(k)] = "wd_check"]
            /\ wire' = IF logging
                       THEN wire \o TxEvents(ws_notif, <<Frame(<<"2">>, NoText)>>)
                       ELSE wire
            /\ UNCHANGED tstate
    /\ UNCHANGED <<clientVars, wl, now, events, logging>>

\* lines 291-301: after the sleep, the idle time is compared with the timeout
WatchdogPoll(k) ==
    /\ pc[Dog(k)] = "wd_sleep"
    /\ IF last2_rx_ts > 0 /\ now - last2_rx_ts > ping2_timeout_sec
       THEN /\ tstate' = ClosedState(ws_notif)
            /\ pc' = [ClosedPc(pc, ws_notif) EXCEPT ![Dog(k)] = "unused"]
       ELSE /\ pc' = [pc EXCEPT ![Dog(k)] = "wd_check"]
            /\ UNCHANGED tstate
    /\ UNCHANGED <<clientVars, wl, envVars>>

\* ------------------------------------------------------------- the clock
Tick ==
    /\ now' = now + TickStep
    /\ UNCHANGED <<clientVars, tstate, pc, wl, wire, logging>>
    /\ Event

\* ------------------------------------------------------- specification
\* The steps of the program's own threads, and the connection being established.
\* A worker stores no attempt counter above MaxCount.
Program ==
    \/ SetNotificationsHandler("gui")
    \/ ShutdownClose
    \/ ShutdownClear
    \/ \E self \in Connectors :
          \/ ConnectGuard(self)
          \/ ConnectSkip(self)
          \/ ConnectCloseOld(self)
          \/ ConnectCreate(self)
    \/ \E t \in Transports :
          \/ TransportConnected(t)
          \/ OnWs2Open(t)
          \/ OnWs2Message(t, ServerHandshake)
          \/ OnWs2CloseStopWatchdog(t)
          \/ OnWs2CloseCheck(t)
    \/ \E self \in Schedulers :
          \/ ScheduleGuard(self)
          \/ ScheduleLocked(self)
    \/ \E w \in Workers :
          \/ WorkerDelay(w)
          \/ WorkerRecheck(w)
          \/ WorkerRefresh(w)
          \/ WorkerIncLoad(w)
          \/ wl[w].tmp < MaxCount /\ WorkerIncStore(w)
          \/ WorkerExcept(w)
    \/ \E k \in Watchdogs :
          \/ WatchdogCheck(k)
          \/ WatchdogPoll(k)

\* What the user and the network do to a running application; the handler is
\* registered before the first sign-in (src/tray_app.py lines 593-594).
Losses ==
    \E t \in Transports :
          \/ TransportRefused(t)
          \/ TransportLost(t)

Environment ==
    \/ notifications_handler = "gui" /\ SignIn("tok1")
    \/ ShutdownFlag
    \/ Losses
    \/ \E self \in Connectors :
          \/ ConnectRaiseEarly(self)
          \/ ConnectRaiseLate(self)
    \/ Tick

Next ==
    \/ Program
    \/ Environment

Spec == Init /\ [][Next]_vars

\* The steps of one thread of the program.
ThreadStep(th) == Program /\ pc'[th] # pc[th]

\* Every thread of the program runs whenever it can; the user and the network owe
\* nothing.
SpecLive == Spec /\ \A th \in Threads : WF_vars(ThreadStep(th))

\* ----------------------------------------------- codec specifications
\* A session that has just been opened: connect_notifications_websocket was called
\* (by sign_in, or directly: it is public and needs no token), the transport is
\* connected and on_ws2_open has run.
SessionOpen ==
    /\ \E tok \in {NoToken} \cup Tokens :
          /\ access_token = tok
          /\ refresh_token = tok
          /\ token_expiry = IF tok = NoToken THEN 0 ELSE Now0 + ExpireIn
    /\ ws_notif = 1
    /\ ws2_should_run = TRUE
    /\ ping2_interval_sec = DefaultPingInterval
    /\ ping2_timeout_sec = DefaultPingTimeout
    /\ watchdog2_thread = 1
    /\ last2_rx_ts = Now0
    /\ reconnect2_attempt = 0
    /\ tstate = [t \in Transports |-> IF t = 1 THEN "connected" ELSE "unused"]
    /\ pc = [th \in Threads |-> IF th = Main THEN "idle"
                                ELSE IF th = Sess(1) THEN "read"
                                ELSE IF th = Dog(1) THEN "wd_check" ELSE "unused"]
    /\ wl = [w \in Workers |-> NoLocals]
    /\ now = Now0
    /\ events = 0
    /\ wire = <<>>
    /\ logging = TRUE

RxCount == Len(SelectSeq(wire, LAMBDA e : e.ev = "rx"))

\* The frames the server sends in the codec specification.
CodecFrames == <<
    ServerHandshake,
    Frame(<<"0">>, BadText),
    Frame(<<"2">>, NoText),
    Frame(<<"2">>, BadText),
    Frame(<<"3">>, NoText),
    Frame(<<"4", "0">>, NoText),
    Frame(<<"4", "1">>, NoText),
    Frame(<<"4", "2">>, JArr(<<JStr("pushNotification"), JObj([id |-> JNum(1)])>>)),
    Frame(<<"4", "2">>, JArr(<<JStr("readNotification"), JNull>>)),
    Frame(<<"4", "2">>, BadText),
    Frame(<<"4", "4">>, JObj([message |-> JStr("denied")])) >>

InitCodec ==
    /\ SessionOpen
    /\ notifications_handler \in {"none", "gui"}

NextCodec ==
    \/ \E h \in {"none", "gui"} : SetNotificationsHandler(h)
    \/ \E i \in 1..Len(CodecFrames) : RxCount < MaxFrames /\ OnWs2Message(1, CodecFrames[i])

SpecCodec == InitCodec /\ [][NextCodec]_vars

\* The values a handshake field takes when present: not a number, or a number of
\* milliseconds (negative, zero, below the floor, at it, above it).
FieldValues(floorMs) ==
    <<JStr("soon"), JNum(-1500), JNum(0), JNum(floorMs - 1), JNum(floorMs),
      JNum(floorMs + 1999), JNum(60000)>>

HandshakeBody(i, j) ==
    LET pis == FieldValues(MinPingInterval * 1000)
        pts == FieldValues(MinPingTimeout * 1000)
    IN IF i = 0 /\ j = 0 THEN JObj(<<>>)
       ELSE IF i = 0 THEN JObj([pingTimeout |-> pts[j]])
       ELSE IF j = 0 THEN JObj([pingInterval |-> pis[i]])
       ELSE JObj([pingInterval |-> pis[i], pingTimeout |-> pts[j]])

InitHandshake ==
    /\ SessionOpen
    /\ notifications_handler = "gui"

NextHandshake ==
    \/ \E i, j \in 0..Len(FieldValues(0)) :
          RxCount < MaxHandshakes /\ OnWs2Message(1, Frame(<<"0">>, HandshakeBody(i, j)))
    \/ RxCount < MaxHandshakes /\ OnWs2Message(1, Frame(<<"0">>, BadText))
    \/ RxCount < MaxHandshakes /\ OnWs2Message(1, Frame(<<"0">>, JArr(<<JNum(25000)>>)))

SpecHandshake == InitHandshake /\ [][NextHandshake]_vars

\* --------------------------------------------- backoff specification
\* A reconnect worker that _schedule2_reconnect has just started, for either value
\* of immediate and any attempt counter; the transport is closed.
InitBackoff ==
    /\ access_token = "tok1"
    /\ refresh_token = "tok1"
    /\ token_expiry = Now0 + ExpireIn
    /\ notifications_handler = "gui"
    /\ ws_notif = 1
    /\ ws2_should_run = TRUE
    /\ ping2_interval_sec = DefaultPingInterval
    /\ ping2_timeout_sec = DefaultPingTimeout
    /\ watchdog2_thread = 0
    /\ last2_rx_ts = Now0
    /\ reconnect2_attempt \in 0..MaxAttempt
    /\ tstate = [t \in Transports |-> IF t = 1 THEN "closed" ELSE "unused"]
    /\ pc = [th \in Threads |-> IF th = Main THEN "idle"
                                ELSE IF th = Sess(1) THEN "done"
                                ELSE IF th = Work(1) THEN "delay" ELSE "unused"]
    /\ \E imm \in BOOLEAN :
          wl = [w \in Workers |-> IF w = 1 THEN [NoLocals EXCEPT !.immediate = imm]
                                  ELSE NoLocals]
    /\ now = Now0
    /\ events = 0
    /\ wire = <<>>
    /\ logging = FALSE

NextBackoff ==
    \/ WorkerDelay(1)
    \/ WorkerRecheck(1)
    \/ WorkerRefresh(1)
    \/ WorkerIncLoad(1)
    \/ WorkerIncStore(1)
    \/ ConnectGuard(Work(1))
    \/ ConnectCloseOld(Work(1))
    \/ ConnectCreate(Work(1))

SpecBackoff == InitBackoff /\ [][NextBackoff]_vars

\* -------------------------------------------- watchdog specification
\* A session that on_ws2_open has just opened, its watchdog loop started; the
\* server sends frames and stays silent in between, and every wait is logged.
InitWatchdog ==
    /\ access_token = "tok1"
    /\ refresh_token = "tok1"
    /\ token_expiry = Now0 + ExpireIn
    /\ notifications_handler = "gui"
    /\ ws_notif = 1
    /\ ws2_should_run = TRUE
    /\ ping2_interval_sec = DefaultPingInterval
    /\ ping2_timeout_sec = DefaultPingTimeout
    /\ watchdog2_thread = 1
    /\ last2_rx_ts = Now0
    /\ reconnect2_attempt = 0
    /\ tstate = [t \in Transports |-> IF t = 1 THEN "connected" ELSE "unused"]
    /\ pc = [th \in Threads |-> IF th = Main THEN "idle"
                                ELSE IF th = Sess(1) THEN "read"
                                ELSE IF th = Dog(1) THEN "wd_check" ELSE "unused"]
    /\ wl = [w \in Workers |-> NoLocals]
    /\ now = Now0
    /\ events = 0
    /\ wire = <<>>
    /\ logging = TRUE

\* time.time() moves on by d seconds while every thread sleeps or blocks
Wait(d) ==
    /\ now + d <= Now0 + MaxClock
    /\ now' = now + d
    /\ wire' = Append(wire, [ev |-> "wait", d |-> d])
    /\ UNCHANGED <<clientVars, tstate, pc, wl, events, logging>>

\* The frames the server sends in the watchdog specification: a probe, and a
\* handshake that negotiates the shortest timeout.
BeatFrames == <<
    Frame(<<"2">>, NoText),
    Frame(<<"0">>, JObj([pingInterval |-> JNum(5000), pingTimeout |-> JNum(10000)])) >>

WatchdogSteps == \E k \in Watchdogs : WatchdogCheck(k) \/ WatchdogPoll(k)

NextWatchdog ==
    \/ Wait(WaitShort)
    \/ Wait(WaitLong)
    \/ \E i \in 1..Len(BeatFrames) : RxCount < MaxBeats /\ OnWs2Message(1, BeatFrames[i])
    \/ \E k \in Watchdogs :
          \/ WatchdogCheck(k)
          \/ WatchdogPoll(k)

\* The watchdog thread runs whenever it can.
SpecWatchdog == InitWatchdog /\ [][NextWatchdog]_vars /\ WF_vars(WatchdogSteps)

\* ------------------------------------------- round-trip specification
\* The text of a message: a sequence of tokens, the type characters first, then
\* the JSON punctuation and atoms of the payload.
Tok(c)  == [c |-> c]
Atom(v) == [c |-> "atom", v |-> v]
TypeChars == {"0", "1", "2", "3", "4"}
NoParse == [ok |-> FALSE, val |-> BadText, rest |-> <<>>]

RECURSIVE KeySeq(_)
KeySeq(S) == IF S = {} THEN <<>>
             ELSE LET k == CHOOSE x \in S : TRUE IN <<k>> \o KeySeq(S \ {k})

\* json.dumps, as the server encodes a payload
RECURSIVE Dumps(_)
RECURSIVE DumpsElems(_)
RECURSIVE DumpsMembers(_, _)
Dumps(v) ==
    IF v.k = "arr" THEN <<Tok("[")>> \o DumpsElems(v.e) \o <<Tok("]")>>
    ELSE IF v.k = "obj" THEN <<Tok("{")>> \o DumpsMembers(v.f, KeySeq(DOMAIN v.f)) \o <<Tok("}")>>
    ELSE <<Atom(v)>>
DumpsElems(e) ==
    IF Len(e) = 0 THEN <<>>
    ELSE IF Len(e) = 1 THEN Dumps(e[1])
    ELSE Dumps(e[1]) \o <<Tok(",")>> \o DumpsElems(Tail(e))
DumpsMembers(f, keys) ==
    IF Len(keys) = 0 THEN <<>>
    ELSE LET m == <<Atom(JStr(keys[1])), Tok(":")>> \o Dumps(f[keys[1]])
         IN IF Len(keys) = 1 THEN m ELSE m \o <<Tok(",")>> \o DumpsMembers(f, Tail(keys))

\* the object with the given members
ObjOf(pairs) ==
    IF Len(pairs) = 0 THEN JObj(<<>>)
    ELSE JObj([key \in {pairs[i][1] : i \in 1..Len(pairs)} |->
                 pairs[CHOOSE i \in 1..Len(pairs) : pairs[i][1] = key][2]])

\* json.loads (line 430): one value parsed from the front of the text
RECURSIVE ParseValue(_)
RECURSIVE ParseElems(_, _)
RECURSIVE ParseMembers(_, _)
ParseValue(ts) ==
    IF Len(ts) = 0 THEN NoParse
    ELSE IF ts[1].c = "atom" THEN [ok |-> TRUE, val |-> ts[1].v, rest |-> Tail(ts)]
    ELSE IF ts[1].c = "[" THEN ParseElems(Tail(ts), <<>>)
    ELSE IF ts[1].c = "{" THEN ParseMembers(Tail(ts), <<>>)
    ELSE NoParse
ParseElems(ts, acc) ==
    IF Len(ts) = 0 THEN NoParse
    ELSE IF ts[1].c = "]"
    THEN IF Len(acc) = 0 THEN [ok |-> TRUE, val |-> JArr(acc), rest |-> Tail(ts)] ELSE NoParse
    ELSE LET r == ParseValue(ts)
         IN IF ~r.ok \/ Len(r.rest) = 0 THEN NoParse
            ELSE IF r.rest[1].c = "]"
            THEN [ok |-> TRUE, val |-> JArr(Append(acc, r.val)), rest |-> Tail(r.rest)]
            ELSE IF r.rest[1].c = "," /\ Len(r.rest) >= 2 /\ r.rest[2].c # "]"
            THEN ParseElems(Tail(r.rest), Append(acc, r.val))
            ELSE NoParse
ParseMembers(ts, acc) ==
    IF Len(ts) = 0 THEN NoParse
    ELSE IF ts[1].c = "}"
    THEN IF Len(acc) = 0 THEN [ok |-> TRUE, val |-> ObjOf(acc), rest |-> Tail(ts)] ELSE NoParse
    ELSE IF Len(ts) < 3 \/ ts[1].c # "atom" \/ ts[2].c # ":" THEN NoParse
    ELSE IF ts[1].v.k # "str" THEN NoParse
    ELSE LET r == ParseValue(SubSeq(ts, 3, Len(ts)))
             members == Append(acc, <<ts[1].v.v, r.val>>)
         IN IF ~r.ok \/ Len(r.rest) = 0 THEN NoParse
            ELSE IF r.rest[1].c = "}"
            THEN [ok |-> TRUE, val |-> ObjOf(members), rest |-> Tail(r.rest)]
            ELSE IF r.rest[1].c = "," /\ Len(r.rest) >= 2 /\ r.rest[2].c # "}"
            THEN ParseMembers(Tail(r.rest), members)
            ELSE NoParse

\* json.loads(text): a value, or the error of text that is not one JSON value
Loads(text) ==
    IF Len(text) = 0 THEN NoText
    ELSE LET r == ParseValue(text)
         IN IF r.ok /\ Len(r.rest) = 0 THEN r.val ELSE BadText

\* message[n + 1:] read one character too early
PayloadTextEarly(text, n) == SubSeq(text, n, Len(text))

\* message[n:] (lines 390, 430): the text after the n type characters
PayloadText(text, n) == SubSeq(text, n + 1, Len(text))

\* The type characters a message starts with, as lines 387-428 test them: one
\* character, or two when the first is 4.
HeadLen(text) ==
    IF Len(text) >= 2 /\ text[1].c = "4" /\ text[2].c \in TypeChars THEN 2
    ELSE IF Len(text) >= 1 /\ text[1].c \in TypeChars THEN 1
    ELSE 0

\* What on_ws2_message makes of a message text
ToFrame(text) ==
    Frame([i \in 1..HeadLen(text) |-> text[i].c],
          Loads(PayloadText(text, HeadLen(text))))

\* '42' followed by the JSON array [type, payload]
EncodeEvent(etype, payload) == <<Tok("4"), Tok("2")>> \o Dumps(JArr(<<etype, payload>>))

EventTypes == <<JStr("pushNotification"), JStr("readNotification")>>
EventPayloads == <<
    JNull,
    JNum(1),
    JStr("text"),
    JArr(<<>>),
    JArr(<<JNum(1), JStr("a")>>),
    JObj([id |-> JNum(1)]),
    JObj([id |-> JNum(1), tags |-> JArr(<<JStr("a"), JNull>>)]),
    JArr(<<JObj([id |-> JNull]), JArr(<<JNum(2)>>)>>) >>

InitRoundTrip ==
    /\ SessionOpen
    /\ notifications_handler = "gui"

EmitCount == Len(SelectSeq(wire, LAMBDA e : e.ev = "emit"))
Emitted == Len(wire) > 0 /\ wire[Len(wire)].ev = "emit"

\* the server encodes an event and writes it to the connection
ServerEmit(etype, payload) ==
    /\ ~Emitted
    /\ EmitCount < MaxEmits
    /\ wire' = Append(wire, [ev |-> "emit", text |-> EncodeEvent(etype, payload),
                             etype |-> etype, payload |-> payload])
    /\ UNCHANGED <<clientVars, tstate, pc, wl, now, events, logging>>

\* the receive thread reads the message and calls on_ws2_message
Receive ==
    /\ Emitted
    /\ OnWs2Message(1, ToFrame(wire[Len(wire)].text))

NextRoundTrip ==
    \/ \E i \in 1..Len(EventTypes), j \in 1..Len(EventPayloads) :
          ServerEmit(EventTypes[i], EventPayloads[j])
    \/ Receive

SpecRoundTrip == InitRoundTrip /\ [][NextRoundTrip]_vars

\* --------------------------------------------- refresh specification
\* One call of refresh_access_token, from every token state. The log holds the
\* calls, the requests sent, the returns and a raise; the calls that have not
\* returned are the call stack.
Caller == Work(1)
CountEv(e) == Len(SelectSeq(wire, LAMBDA x : x.ev = e))
Depth == CountEv("call") - CountEv("return")

InitRefresh ==
    /\ access_token \in {NoToken} \cup Tokens
    /\ refresh_token \in {NoToken} \cup Tokens
    /\ token_expiry = Now0 + ExpireIn
    /\ notifications_handler = "none"
    /\ ws_notif = 0
    /\ ws2_should_run = FALSE
    /\ ping2_interval_sec = DefaultPingInterval
    /\ ping2_timeout_sec = DefaultPingTimeout
    /\ watchdog2_thread = 0
    /\ last2_rx_ts = 0
    /\ reconnect2_attempt = 0
    /\ tstate = [t \in Transports |-> "unused"]
    /\ pc = [th \in Threads |-> IF th = Caller THEN "refresh"
                                ELSE IF th = Main THEN "idle" ELSE "unused"]
    /\ wl = [w \in Workers |-> NoLocals]
    /\ now \in {Now0, Now0 + ExpireIn - ExpiryMargin, Now0 + TickStep}
    /\ events = 0
    /\ wire = <<[ev |-> "call"]>>
    /\ logging = TRUE

\* a return of refresh_access_token: to the caller, or to line 74 of the
\* _make_request that called it
AfterReturn == IF Depth = 1 THEN "done" ELSE "post"

\* refresh_access_token, lines 137-142
RefreshEnter ==
    /\ pc[Caller] = "refresh"
    /\ IF refresh_token = NoToken
       THEN /\ wire' = Append(wire, [ev |-> "return", result |-> FALSE])
            /\ pc' = [pc EXCEPT ![Caller] = AfterReturn]
       ELSE /\ pc' = [pc EXCEPT ![Caller] = "request"]
            /\ UNCHANGED wire
    /\ UNCHANGED <<clientVars, tstate, wl, now, events, logging>>

\* _make_request, lines 70-72: the expiry check and its call of
\* refresh_access_token, which nothing catches when it raises
MakeRequestCheck ==
    /\ pc[Caller] = "request"
    /\ IF ~NearExpiry
       THEN /\ pc' = [pc EXCEPT ![Caller] = "post"]
            /\ UNCHANGED wire
       ELSE IF Depth >= MaxDepth
       THEN /\ pc' = [pc EXCEPT ![Caller] = "raised"]
            /\ wire' = Append(wire, [ev |-> "raise"])
       ELSE /\ pc' = [pc EXCEPT ![Caller] = "refresh"]
            /\ wire' = Append(wire, [ev |-> "call"])
    /\ UNCHANGED <<clientVars, tstate, wl, now, events, logging>>

\* a refresh that also adopts the response's token as the refresh token, as
\* sign_in does
RefreshPostRotates(jwt) ==
    /\ pc[Caller] = "post"
    /\ wire' = wire \o <<[ev |-> "post"], [ev |-> "return", result |-> jwt # NoToken]>>
    /\ pc' = [pc EXCEPT ![Caller] = AfterReturn]
    /\ IF jwt # NoToken
       THEN /\ access_token' = jwt
            /\ refresh_token' = jwt
            /\ token_expiry' = now + ExpireIn
       ELSE UNCHANGED <<access_token, refresh_token, token_expiry>>
    /\ UNCHANGED <<notifications_handler, ws_notif, ws2_should_run,
                   pingVars, watchdog2_thread, last2_rx_ts, reconnect2_attempt>>
    /\ UNCHANGED <<tstate, wl, now, events, logging>>

\* _make_request, lines 74-104, and refresh_access_token, lines 143-149: the
\* request is sent; jwt is the token of the response, NoToken when the response
\* has none or the request failed
RefreshPost(jwt) ==
    /\ pc[Caller] = "post"
    /\ wire' = wire \o <<[ev |-> "post"], [ev |-> "return", result |-> jwt # NoToken]>>
    /\ pc' = [pc EXCEPT ![Caller] = AfterReturn]
    /\ IF jwt # NoToken
       THEN /\ access_token' = jwt
            /\ token_expiry' = now + ExpireIn
       ELSE UNCHANGED <<access_token, token_expiry>>
    /\ UNCHANGED <<refresh_token, notifications_handler, ws_notif, ws2_should_run,
                   pingVars, watchdog2_thread, last2_rx_ts, reconnect2_attempt>>
    /\ UNCHANGED <<tstate, wl, now, events, logging>>

NextRefresh ==
    \/ RefreshEnter
    \/ MakeRequestCheck
    \/ \E jwt \in {NoToken} \cup Tokens : RefreshPost(jwt)

SpecRefresh == InitRefresh /\ [][NextRefresh]_vars /\ WF_vars(NextRefresh)

\* ---------------------------------------------- faults specification
\* An open session whose handler works or raises on every call; the server sends
\* well-formed and malformed frames.
FaultFrames == CodecFrames \o <<
    Frame(<<"4", "2">>, NoText),
    Frame(<<"4", "2">>, JArr(<<JStr("pushNotification")>>)),
    Frame(<<"4", "2">>, JObj([type |-> JStr("pushNotification")])),
    Frame(<<"4", "2">>, JStr(<<"o", "k">>)),
    Frame(<<"0">>, JArr(<<>>)) >>

InitFaults ==
    /\ SessionOpen
    /\ notifications_handler \in {"gui", "faulty"}

NextFaults ==
    \E i \in 1..Len(FaultFrames) : RxCount < MaxFrames /\ OnWs2Message(1, FaultFrames[i])

SpecFaults == InitFaults /\ [][NextFaults]_vars

\* ------------------------------------------- timestamp specification
\* A transport that has just connected: on_ws2_open runs, then frames of every
\* kind arrive with waits in between.
StampFrames == <<
    ServerHandshake,
    Frame(<<"2">>, NoText),
    Frame(<<"3">>, NoText),
    Frame(<<"4", "0">>, NoText),
    Frame(<<"4", "1">>, NoText),
    Frame(<<"4", "2">>, JArr(<<JStr("pushNotification"), JObj([id |-> JNum(1)])>>)),
    Frame(<<"4", "2">>, BadText),
    Frame(<<"4", "4">>, JObj([message |-> JStr("denied")])) >>

InitStamp ==
    /\ access_token = "tok1"
    /\ refresh_token = "tok1"
    /\ token_expiry = Now0 + ExpireIn
    /\ notifications_handler = "gui"
    /\ ws_notif = 1
    /\ ws2_should_run = TRUE
    /\ ping2_interval_sec = DefaultPingInterval
    /\ ping2_timeout_sec = DefaultPingTimeout
    /\ watchdog2_thread = 0
    /\ last2_rx_ts = 0
    /\ reconnect2_attempt = 0
    /\ tstate = [t \in Transports |-> IF t = 1 THEN "connected" ELSE "unused"]
    /\ pc = [th \in Threads |-> IF th = Main THEN "idle"
                                ELSE IF th = Sess(1) THEN "open" ELSE "unused"]
    /\ wl = [w \in Workers |-> NoLocals]
    /\ now = Now0
    /\ events = 0
    /\ wire = <<>>
    /\ logging = TRUE

NextStamp ==
    \/ Wait(WaitShort)
    \/ Wait(WaitLong)
    \/ OnWs2Open(1)
    \/ \E i \in 1..Len(StampFrames) : RxCount < MaxBeats /\ OnWs2Message(1, StampFrames[i])

SpecStamp == InitStamp /\ [][NextStamp]_vars

\* --------------------------------------------- sign-in specification
\* sign_in step by step on the GUI thread: the request, the bootstrap of the
\* notification list, connect_notifications_websocket. The log holds the
\* requests with their outcome and the calls of the handler.
Listings == {"items", "none", "raises"}
BootstrapType == JStr("bootstrapNotifications")
ListingItems(listing) ==
    IF listing = "items" THEN JArr(<<JObj([id |-> JNum(1)])>>) ELSE JArr(<<>>)

InitSignIn ==
    /\ access_token = NoToken
    /\ refresh_token = NoToken
    /\ token_expiry = 0
    /\ notifications_handler \in {"none", "gui", "faulty"}
    /\ ws_notif = 0
    /\ ws2_should_run = FALSE
    /\ ping2_interval_sec = DefaultPingInterval
    /\ ping2_timeout_sec = DefaultPingTimeout
    /\ watchdog2_thread = 0
    /\ last2_rx_ts = 0
    /\ reconnect2_attempt = 0
    /\ NoThreads
    /\ now = Now0
    /\ events = 0
    /\ wire = <<>>
    /\ logging = TRUE

\* lines 106-114 and 132-134: the sign-in request; jwt is the token of the
\* response, NoToken when the request failed or the response has none
SignInRequest(jwt) ==
    /\ pc[Main] = "idle"
    /\ ~RefreshRaises
    /\ wire' = Append(wire, [ev |-> "signin", ok |-> jwt # NoToken])
    /\ IF jwt # NoToken
       THEN /\ access_token' = jwt
            /\ refresh_token' = jwt
            /\ token_expiry' = now + ExpireIn
            /\ pc' = [pc EXCEPT ![Main] = "bootstrap"]
       ELSE UNCHANGED <<tokenVars, pc>>
    /\ UNCHANGED <<notifications_handler, ws_notif, ws2_should_run, pingVars,
                   watchdog2_thread, last2_rx_ts, reconnect2_attempt>>
    /\ UNCHANGED <<tstate, wl, now, logging>>
    /\ Event

\* a bootstrap that gives the sign-in up when the list cannot be retrieved
BootstrapAborts(listing) ==
    /\ pc[Main] = "bootstrap"
    /\ wire' = wire \o <<[ev |-> "list", result |-> listing]>>
                    \o (IF listing # "raises" /\ notifications_handler # "none"
                        THEN HandleEvents(0, << <<BootstrapType, ListingItems(listing)>> >>)
                        ELSE <<>>)
    /\ pc' = [pc EXCEPT ![Main] = IF listing = "raises" THEN "idle" ELSE "conn_guard"]
    /\ UNCHANGED <<clientVars, tstate, wl, now, events, logging>>

\* lines 116-128: the list is retrieved (items, nothing, or an exception) and
\* handed to the handler if one is registered; whatever is raised is caught at
\* line 127. Line 131 then calls connect_notifications_websocket.
Bootstrap(listing) ==
    /\ pc[Main] = "bootstrap"
    /\ wire' = wire \o <<[ev |-> "list", result |-> listing]>>
                    \o (IF listing # "raises" /\ notifications_handler # "none"
                        THEN HandleEvents(0, << <<BootstrapType, ListingItems(listing)>> >>)
                        ELSE <<>>)
    /\ pc' = [pc EXCEPT ![Main] = "conn_guard"]
    /\ UNCHANGED <<clientVars, tstate, wl, now, events, logging>>

NextSignIn ==
    \/ \E jwt \in {NoToken} \cup Tokens : SignInRequest(jwt)
    \/ \E listing \in Listings : Bootstrap(listing)
    \/ ConnectGuard(Main)
    \/ ConnectSkip(Main)
    \/ ConnectCloseOld(Main)
    \/ ConnectCreate(Main)
    \/ \E t \in Transports : TransportConnected(t)

SpecSignIn == InitSignIn /\ [][NextSignIn]_vars

\* ============================================================== claims
\* ---- C1 (src/api.py lines 368-375)
\* C1: whenever on_ws2_close runs for a transport while shutdown_notifications has
\* not been called, it goes on from its check of the should-run flag (line 371)
\* to the call of _schedule2_reconnect(immediate=True) (line 375); it never
\* returns at line 373.
C1_CloseInvokesSupervisor ==
    [][\A t \in Transports :
          (pc[Sess(t)] = "close_check" /\ ~ShutdownRequested /\ pc'[Sess(t)] # "close_check")
             => pc'[Sess(t)] = "sched_guard"]_vars

\* ---- C2 (src/api.py lines 314-353, 368-375)
\* The model's pools are exhausted: a step the program would take is held back.
BoundReached ==
    \/ \E self \in Connectors : pc[self] = "conn_create" /\ ~HasFreeT
    \/ \E self \in Schedulers : pc[self] = "sched_lock" /\ ~ws2_should_run /\ ~HasFreeW
    \/ \E t \in Transports : pc[Sess(t)] = "open" /\ ~WatchdogAlive /\ ~HasFreeK
    \/ \E w \in Workers : pc[Work(w)] = "inc_store" /\ wl[w].tmp >= MaxCount

\* The current transport has just closed and its close callback is about to run.
ConnectionLost ==
    /\ ws_notif # 0
    /\ tstate[ws_notif] = "closed"
    /\ pc[Sess(ws_notif)] = "close_stop"
    /\ ~ShutdownRequested

SessionStarted == ws_notif # 0 /\ tstate[ws_notif] \in {"connecting", "connected"}

\* C2: after every loss of the current connection with no shutdown requested, a
\* new Connection Session is eventually started, unless shutdown_notifications is
\* called in the meantime.
C2_RecoveryLiveness ==
    ConnectionLost ~> (SessionStarted \/ ShutdownRequested \/ BoundReached)

\* ---- C3 (src/api.py lines 229-256, 335-346)
LiveSessions == {t \in Transports : tstate[t] = "connected"}

\* C3: in every reachable state at most one transport is connected.
C3_AtMostOneLiveSession == Cardinality(LiveSessions) <= 1

\* ---- C4 (src/api.py lines 229-233)
\* C4: a call of connect_notifications_websocket that finds the current transport
\* connected returns without changing the client's state: the transport, its
\* state, the should-run flag and the attempt counter keep their values, no
\* transport is closed and no receive thread is started.
C4_ConnectIdempotent ==
    [][\A self \in Connectors :
          /\ (pc[self] = "conn_guard" /\ Connected /\ pc'[self] # "conn_guard")
                => (pc'[self] = "conn_skip" /\ UNCHANGED <<clientVars, tstate>>
                    /\ \A t \in Transports : pc'[Sess(t)] = pc[Sess(t)])
          /\ (pc[self] = "conn_skip" /\ pc'[self] # "conn_skip")
                => (pc'[self] = AfterConnect(self) /\ UNCHANGED <<clientVars, tstate>>
                    /\ \A t \in Transports : pc'[Sess(t)] = pc[Sess(t)])]_vars

\* A connect call is returning at line 233 with the transport still connected.
C4_Witness == \E self \in Connectors : pc[self] = "conn_skip" /\ Connected

\* ---- C5 (src/api.py lines 314-353, 368-375)
AliveWorkers == {w \in Workers : pc[Work(w)] # "unused"}

\* C5: in every reachable state at most one do_reconnect worker is alive.
C5_AtMostOneWorker == Cardinality(AliveWorkers) <= 1

\* ---- C6 (src/api.py lines 408-414, 219-225)
IsRx(i)     == wire[i].ev = "rx"
IsTx(i)     == wire[i].ev = "tx"
IsHandle(i) == wire[i].ev = "handle"
HeadIs(f, c) == Len(f.head) >= 1 /\ f.head[1] = c
IsPong(f)   == f.head = <<"3">> /\ f.body.k = "none"

\* C6: in the log of frames received and sent, every received frame that starts
\* with 2 is followed at once by one sent frame 3 on the same transport, every
\* sent frame 3 follows such a probe, and no sent frame starts with 2.
C6_OneAckPerProbe ==
    \A i \in 1..Len(wire) :
       /\ (IsRx(i) /\ HeadIs(wire[i].frame, "2"))
             => /\ i + 1 <= Len(wire) /\ IsTx(i + 1) /\ IsPong(wire[i + 1].frame)
                /\ wire[i + 1].t = wire[i].t
                /\ (i + 2 <= Len(wire) => ~IsTx(i + 2))
       /\ (IsTx(i) /\ IsPong(wire[i].frame))
             => (i > 1 /\ IsRx(i - 1) /\ HeadIs(wire[i - 1].frame, "2"))
       /\ IsTx(i) => ~HeadIs(wire[i].frame, "2")

\* Two probes, one of them with trailing text, have been received and answered.
C6_Witness ==
    /\ Len(wire) >= 4
    /\ \E i, j \in 1..Len(wire) :
          /\ i < j
          /\ IsRx(i) /\ HeadIs(wire[i].frame, "2") /\ wire[i].frame.body.k = "bad"
          /\ IsRx(j) /\ HeadIs(wire[j].frame, "2")
          /\ IsTx(j + 1)

\* ---- C7 (src/api.py lines 387-397)
LastRx == CHOOSE i \in 1..Len(wire) : IsRx(i) /\ \A j \in (i + 1)..Len(wire) : ~IsRx(j)
Absent(body, key)  == body.k = "obj" /\ key \notin DOMAIN body.f
Numeric(body, key) == body.k = "obj" /\ key \in DOMAIN body.f /\ body.f[key].k = "num"
\* s seconds is v milliseconds rounded down, and no less than the floor
Clamped(s, v, floorSec) ==
    IF v < floorSec * 1000 THEN s = floorSec ELSE s * 1000 <= v /\ v < (s + 1) * 1000

\* C7: after a handshake frame whose pingInterval and pingTimeout are each absent
\* or a number, the interval is 25 s when absent and else max(5, v div 1000), the
\* timeout is 60 s when absent and else max(10, v div 1000).
C7_HandshakePing ==
    wire # <<>> =>
       LET b == wire[LastRx].frame.body
       IN ((Absent(b, "pingInterval") \/ Numeric(b, "pingInterval"))
             /\ (Absent(b, "pingTimeout") \/ Numeric(b, "pingTimeout")))
          => /\ Absent(b, "pingInterval") => ping2_interval_sec = 25
             /\ Numeric(b, "pingInterval")
                   => Clamped(ping2_interval_sec, b.f["pingInterval"].v, 5)
             /\ Absent(b, "pingTimeout") => ping2_timeout_sec = 60
             /\ Numeric(b, "pingTimeout")
                   => Clamped(ping2_timeout_sec, b.f["pingTimeout"].v, 10)

\* A handshake with an interval below the floor and no timeout has been adopted.
C7_Witness ==
    /\ wire # <<>>
    /\ LET b == wire[LastRx].frame.body
       IN /\ Numeric(b, "pingInterval") /\ b.f["pingInterval"].v = 4999
          /\ Absent(b, "pingTimeout")
    /\ ping2_interval_sec = 5
    /\ ping2_timeout_sec = 60

\* ---- C8 (src/api.py lines 387-406)
IsChannelOpen(f, token) ==
    /\ f.head = <<"4", "0">>
    /\ f.body.k = "obj"
    /\ DOMAIN f.body.f = {"token"}
    /\ f.body.f["token"].k = "str"
    /\ f.body.f["token"].v = token

\* C8: every handshake frame received while an access token is held is followed at
\* once by exactly one sent frame, 40{"token":"<that token>"}; one received while
\* no token is held is followed by no sent frame; the session stays connected and
\* reading, its attempt counter 0.
C8_HandshakeAuth ==
    /\ \A i \in 1..Len(wire) :
          (IsRx(i) /\ HeadIs(wire[i].frame, "0"))
             => IF wire[i].token # NoToken
                THEN /\ i + 1 <= Len(wire) /\ IsTx(i + 1)
                     /\ IsChannelOpen(wire[i + 1].frame, wire[i].token)
                     /\ (i + 2 <= Len(wire) => ~IsTx(i + 2))
                ELSE i + 1 <= Len(wire) => ~IsTx(i + 1)
    /\ (wire # <<>> /\ HeadIs(wire[LastRx].frame, "0"))
          => (Connected /\ pc[Sess(ws_notif)] = "read" /\ reconnect2_attempt = 0)

\* A handshake has been answered with the token held.
C8_Witness ==
    \E i \in 1..Len(wire) :
       /\ IsRx(i) /\ HeadIs(wire[i].frame, "0") /\ wire[i].token = "tok2"
       /\ i + 1 <= Len(wire) /\ IsTx(i + 1)

\* ---- C9 (src/api.py lines 428-442; src/tray_app.py lines 1232-1237)
IsEventFrame(f) ==
    f.head = <<"4", "2">> /\ f.body.k = "arr" /\ Len(f.body.e) = 2

\* C9: every received frame 42[type, payload] with a handler registered is followed
\* at once by exactly one call handle(type, payload), and every call of handle
\* follows the frame it delivers: calls happen in the order of the frames.
C9_EventDelivery ==
    \A i \in 1..Len(wire) :
       /\ (IsRx(i) /\ IsEventFrame(wire[i].frame) /\ wire[i].handler # "none")
             => /\ i + 1 <= Len(wire) /\ IsHandle(i + 1)
                /\ wire[i + 1].etype = wire[i].frame.body.e[1]
                /\ wire[i + 1].payload = wire[i].frame.body.e[2]
                /\ (i + 2 <= Len(wire) => ~IsHandle(i + 2))
       /\ IsHandle(i)
             => (i > 1 /\ IsRx(i - 1) /\ IsEventFrame(wire[i - 1].frame)
                 /\ wire[i - 1].handler # "none")

\* Two different events have been delivered one after the other.
C9_Witness ==
    /\ Len(wire) >= 4
    /\ IsHandle(2) /\ IsHandle(4)
    /\ wire[2].etype.v = "pushNotification"
    /\ wire[4].etype.v = "readNotification"

\* ---- C10 (src/api.py lines 325-333, 50-51)
\* The worker has computed its delay (lines 327-330) and not yet ended.
Slept(w) == pc[Work(w)] \notin {"unused", "delay"}

\* C10 as stated: a non-immediate attempt with counter n waits min(30, 2^n)
\* seconds: 1, 2, 4, 8 for n = 0, 1, 2, 3, and 30 for n >= 5, never more than 30.
C10_BackoffAsStated ==
    \A w \in Workers :
       (Slept(w) /\ ~wl[w].immediate)
          => /\ wl[w].delay <= 30
             /\ wl[w].n = 0 => wl[w].delay = 1
             /\ wl[w].n = 1 => wl[w].delay = 2
             /\ wl[w].n = 2 => wl[w].delay = 4
             /\ wl[w].n = 3 => wl[w].delay = 8
             /\ wl[w].n >= 5 => wl[w].delay = 30

\* C10: a non-immediate attempt with counter n waits 0 seconds for n = 0, and
\* 2, 4, 8, 16 seconds for n = 1, 2, 3, 4, and 30 seconds for n >= 5, never more
\* than 30.
C10_Backoff ==
    \A w \in Workers :
       (Slept(w) /\ ~wl[w].immediate)
          => /\ wl[w].delay <= 30
             /\ wl[w].n = 0 => wl[w].delay = 0
             /\ wl[w].n = 1 => wl[w].delay = 2
             /\ wl[w].n = 2 => wl[w].delay = 4
             /\ wl[w].n = 3 => wl[w].delay = 8
             /\ wl[w].n = 4 => wl[w].delay = 16
             /\ wl[w].n >= 5 => wl[w].delay = 30

\* A non-immediate worker with counter 0 has computed its delay.
C10_Witness ==
    \E w \in Workers : Slept(w) /\ ~wl[w].immediate /\ wl[w].n = 0 /\ wl[w].delay = 0

\* ---- C11 (src/api.py lines 325-351, 251-252)
\* C11: a worker started by the close callback (the first attempt, immediate)
\* waits 0 seconds; a worker started because the attempt before it failed (the
\* retry of lines 347-351, not immediate) finds the counter incremented by that
\* attempt and waits 2^n seconds: 2 seconds for the second attempt; it never
\* waits 0 seconds.
C11_SecondAttemptWaits ==
    \A w \in Workers :
       Slept(w) =>
          /\ wl[w].immediate => wl[w].delay = 0
          /\ ~wl[w].immediate => (wl[w].n >= 1 /\ wl[w].delay >= 2)
          /\ (~wl[w].immediate /\ wl[w].n = 1) => wl[w].delay = 2

\* ---- C12 (src/api.py lines 283-309, 355-359)
\* The seconds waited since the last inbound frame, or since the session opened.
RECURSIVE SilenceAt(_)
SilenceAt(i) ==
    IF i = 0 \/ wire[i].ev = "rx" THEN 0
    ELSE IF wire[i].ev = "wait" THEN wire[i].d + SilenceAt(i - 1)
    ELSE SilenceAt(i - 1)
Silence == SilenceAt(Len(wire))

Silent == Connected /\ Silence > ping2_timeout_sec

\* C12: the transport is closed by the watchdog only after a silence longer than
\* the negotiated pingTimeout, and then the watchdog loop has ended; and a silence
\* longer than pingTimeout on a connected session does not last: the watchdog
\* closes the transport unless a frame arrives first.
C12_WatchdogTrigger ==
    /\ [](tstate[1] = "closed" => (Silence > ping2_timeout_sec /\ pc[Dog(1)] = "unused"))
    /\ (Silent ~> ~Silent)

\* The watchdog has closed a session that negotiated 60 s and was silent for 61 s
\* after a frame that came 30 s after the one before.
C12_Witness ==
    /\ tstate[1] = "closed"
    /\ ping2_timeout_sec = 60
    /\ Silence = 61
    /\ \E i, j \in 1..Len(wire) : i < j /\ wire[i].ev = "wait" /\ wire[j].ev = "rx"

\* ---- C13 (src/api.py lines 258-281, 325-351)
\* C13: once shutdown_notifications has been called, no step starts a new
\* transport with its receive thread.
C13_NoSessionAfterShutdown ==
    [][ShutdownRequested =>
          \A t \in Transports :
             pc'[Sess(t)] = "connecting" => pc[Sess(t)] = "connecting"]_vars

\* ---- C14 (src/api.py lines 283-309, 355-359)
AliveWatchdogs == {k \in Watchdogs : pc[Dog(k)] # "unused"}
\* on_ws2_open has returned and the transport is still connected
OpenSessions == {t \in Transports : tstate[t] = "connected" /\ pc[Sess(t)] = "read"}

\* C14: in every reachable state at most one watchdog loop is alive, and while a
\* session is open and no shutdown has been requested exactly one is.
C14_OneWatchdogPerSession ==
    /\ Cardinality(AliveWatchdogs) <= 1
    /\ (OpenSessions # {} /\ ~ShutdownRequested) => Cardinality(AliveWatchdogs) = 1

\* ---- C15 (src/api.py lines 428-442)
\* C15: every pair (type, payload) the server encodes as 42[type, payload] is,
\* once the message is received, handed to the handler as that same pair.
C15_RoundTrip ==
    \A i \in 1..Len(wire) :
       (wire[i].ev = "emit" /\ i < Len(wire))
          => /\ i + 2 <= Len(wire)
             /\ wire[i + 1].ev = "rx"
             /\ wire[i + 2].ev = "handle"
             /\ wire[i + 2].etype = wire[i].etype
             /\ wire[i + 2].payload = wire[i].payload

\* A nested payload has made the round trip.
C15_Witness ==
    \E i \in 1..Len(wire) :
       /\ wire[i].ev = "handle"
       /\ wire[i].payload.k = "obj"
       /\ DOMAIN wire[i].payload.f = {"id", "tags"}
       /\ wire[i].payload.f["tags"].k = "arr"

\* ---- C16 (src/api.py lines 341-351, 251-252, 404-406)
\* C16: the attempt counter is never negative, and a step of a reconnect worker
\* changes it only by adding one (the attempt it makes) or by resetting it when
\* it finds the connection restored; so the counter counts the attempts made
\* since the last successful open.
C16_AttemptCounter ==
    /\ [](reconnect2_attempt >= 0)
    /\ [][\A w \in Workers :
            (pc[Work(w)] # "unused" /\ pc'[Work(w)] # pc[Work(w)]
                /\ reconnect2_attempt' # reconnect2_attempt)
               => \/ reconnect2_attempt' = reconnect2_attempt + 1
                  \/ Connected /\ reconnect2_attempt' = 0]_vars

\* ---- C17 (src/api.py lines 341-351, 136-149, 66-104)
\* C17: a reconnect worker that finds the connection still lost and the token
\* near expiry goes on, whatever the refresh does, to increment the attempt
\* counter and to call connect_notifications_websocket.
C17_RefreshFailureProceeds ==
    [][\A w \in Workers :
          (pc[Work(w)] = "refresh" /\ pc'[Work(w)] # "refresh" /\ NearExpiry)
             => /\ pc'[Work(w)] = "inc_load"
                /\ access_token' = access_token]_vars

\* ---- C18 (src/api.py lines 136-149, 66-72)
\* C18: a call of refresh_access_token never raises, and when it has returned it
\* has sent no request if no refresh token is held and exactly one otherwise.
C18_RefreshTerminates ==
    /\ pc[Caller] # "raised"
    /\ pc[Caller] = "done" =>
          /\ wire[Len(wire)].ev = "return"
          /\ CountEv("post") = IF refresh_token = NoToken THEN 0 ELSE 1

C20_RetryAfterRaise ==
    [][\A w \in Workers :
          /\ (pc[Work(w)] = "except" /\ pc'[Work(w)] # "except")
                => (~ws2_should_run' /\ pc'[Work(w)] = "sched_guard")
          /\ \A v \in Workers :
                (pc[Work(w)] = "sched_lock" /\ pc[Work(v)] = "unused" /\ pc'[Work(v)] = "delay")
                   => ~wl'[v].immediate
          /\ (pc[Work(w)] = "delay" /\ pc'[Work(w)] = "recheck"
                 /\ ~wl[w].immediate /\ ~Connected)
                => /\ reconnect2_attempt >= 1
                   /\ wl'[w].delay = Min(max2_backoff, Pow2(reconnect2_attempt))]_vars

\* ---- C21 (src/api.py lines 335-339)
\* C21: a worker that finds the transport connected after its wait ends its
\* cycle in that step: the counter becomes 0, the in-progress flag is cleared,
\* no transport is created or closed and the tokens are not touched.
C21_AbortWhenConnected ==
    [][\A w \in Workers :
          (pc[Work(w)] = "recheck" /\ pc'[Work(w)] # "recheck" /\ Connected)
             => /\ pc'[Work(w)] = "unused"
                /\ reconnect2_attempt' = 0
                /\ ~ws2_should_run'
                /\ ws_notif' = ws_notif
                /\ tstate' = tstate
                /\ UNCHANGED tokenVars]_vars

\* A worker stands at the re-check with the transport connected and the counter
\* not zero.
C21_Witness ==
    \E w \in Workers :
       /\ pc[Work(w)] = "recheck"
       /\ Connected
       /\ reconnect2_attempt >= 1

\* ---- C22 (src/api.py lines 283-309, 368-375)
\* C22: a step of the watchdog loop writes no frame, changes no field of the
\* client, starts no worker and moves no other thread, except that on a timeout
\* it closes the current transport, whose receive thread then runs the close
\* callback.
C22_WatchdogObserves ==
    [][\A k \in Watchdogs :
          (pc[Dog(k)] # "unused" /\ pc'[Dog(k)] # pc[Dog(k)])
             => /\ wire' = wire
                /\ UNCHANGED clientVars
                /\ wl' = wl
                /\ \A th \in Threads \ {Dog(k)} :
                      pc'[th] # pc[th] => (th = Sess(ws_notif) /\ pc'[th] = "close_stop")
                /\ \A t \in Transports :
                      tstate'[t] # tstate[t]
                         => /\ t = ws_notif
                            /\ tstate'[t] = "closed"
                            /\ now - last2_rx_ts > ping2_timeout_sec]_vars

\* The watchdog has closed the transport and ended; the close callback is next.
C22_Witness ==
    /\ tstate[1] = "closed"
    /\ pc[Sess(1)] = "close_stop"
    /\ pc[Dog(1)] = "unused"
    /\ ws2_should_run
    /\ \E i \in 1..Len(wire) : wire[i].ev = "tx"

\* ---- C23 (src/api.py lines 377-445, 219-225)
IsAuthTx(i) == IsTx(i) /\ \E tok \in Tokens : IsChannelOpen(wire[i].frame, tok)
IsHandshakeRx(i) == IsRx(i) /\ HeadIs(wire[i].frame, "0")

\* C23: every frame sent is the acknowledgment 3 or a channel-open frame
\* 40{"token": ...}; a channel-open frame is the one frame sent for the handshake
\* received just before it.
C23_OnlyAckAndAuthSent ==
    \A i \in 1..Len(wire) :
       IsTx(i) =>
          /\ IsPong(wire[i].frame) \/ IsAuthTx(i)
          /\ IsAuthTx(i) => (i > 1 /\ IsHandshakeRx(i - 1))

\* Both kinds of frame have been sent, the channel-open frame once for each of
\* two handshakes.
C23_Witness ==
    /\ \E i \in 1..Len(wire) : IsTx(i) /\ IsPong(wire[i].frame)
    /\ \E i, j \in 1..Len(wire) : i < j /\ IsAuthTx(i) /\ IsAuthTx(j)

\* ---- C24 (src/api.py lines 377-445)
\* C24: every call of the handler for a channel event comes after a handshake
\* was received and answered with the channel-open frame on that session.
C24_EventsAfterAuth ==
    \A i \in 1..Len(wire) :
       IsHandle(i) =>
          \E j \in 1..(i - 1) :
             /\ IsHandshakeRx(j)
             /\ wire[j].t = wire[i].t
             /\ IsAuthTx(j + 1)

\* ---- C25 (src/api.py lines 428-445)
\* C25: with a handler that raises on every call, no exception leaves
\* on_ws2_message; the session stays connected and reading, the flag and the
\* counter are untouched, no worker is started, and every later event frame is
\* still handed to the handler.
C25_HandlerFaultContained ==
    /\ \A i \in 1..Len(wire) : wire[i].ev = "escape" => wire[i].exc # "HandlerError"
    /\ tstate[1] = "connected" /\ pc[Sess(1)] = "read" /\ ws_notif = 1
    /\ ws2_should_run /\ reconnect2_attempt = 0
    /\ \A w \in Workers : pc[Work(w)] = "unused"
    /\ \A i \in 1..Len(wire) :
          (IsRx(i) /\ IsEventFrame(wire[i].frame))
             => (i + 1 <= Len(wire) /\ IsHandle(i + 1)
                   /\ wire[i + 1].etype = wire[i].frame.body.e[1])

\* The faulty handler was called for an event, and called again for a later one.
C25_Witness ==
    /\ notifications_handler = "faulty"
    /\ \E i, j \in 1..Len(wire) :
          /\ i < j
          /\ IsHandle(i) /\ IsHandle(j)
          /\ Raises(wire[i - 1].frame, "faulty") = "HandlerError"

\* ---- C26 (src/api.py lines 386-406, 428-445)
\* A handshake or event frame whose payload is not what the branch expects.
Malformed(f) ==
    \/ HeadIs(f, "0") /\ f.body.k # "obj"
    \/ f.head = <<"4", "2">> /\ ~(f.body.k = "arr" /\ Len(f.body.e) >= 2)

\* C26: no exception leaves on_ws2_message; a malformed event frame is followed
\* by no call of the handler, a malformed handshake leaves the default ping
\* settings, and the session stays connected and reading with no worker started.
C26_MalformedDropped ==
    /\ \A i \in 1..Len(wire) : wire[i].ev # "escape"
    /\ \A i \in 1..Len(wire) :
          (IsRx(i) /\ Malformed(wire[i].frame) /\ ~HeadIs(wire[i].frame, "0"))
             => (i + 1 <= Len(wire) => IsRx(i + 1))
    /\ (wire # <<>> /\ Malformed(wire[LastRx].frame) /\ HeadIs(wire[LastRx].frame, "0"))
          => (ping2_interval_sec = DefaultPingInterval
                 /\ ping2_timeout_sec = DefaultPingTimeout)
    /\ tstate[1] = "connected" /\ pc[Sess(1)] = "read" /\ ws_notif = 1
    /\ \A w \in Workers : pc[Work(w)] = "unused"

\* ---- C27 (src/api.py lines 355-359, 377-384)
\* C27: the liveness timestamp never decreases, and each step in which the
\* session opens or a frame of any kind is received leaves it equal to the clock.
C27_LivenessStamp ==
    [][/\ last2_rx_ts' >= last2_rx_ts
       /\ RxCount' > RxCount => last2_rx_ts' = now
       /\ (pc[Sess(1)] = "open" /\ pc'[Sess(1)] # "open") => last2_rx_ts' = now]_vars

\* After a wait a frame that no branch handles was received and stamped.
C27_Witness ==
    /\ Len(wire) >= 3
    /\ wire[Len(wire) - 1].ev = "wait"
    /\ IsRx(Len(wire))
    /\ Dispatch(wire[Len(wire)].frame) = "ignored"
    /\ last2_rx_ts = now
    /\ now > Now0 + WaitLong

\* ---- C28 (src/api.py lines 320-351, 251-252, 368-375)
\* C28: the increment of the attempt counter is not interleaved with another
\* update: the store of a worker's "+= 1" leaves the counter one above the value
\* it has at that moment, so no increment or reset made meanwhile is lost.
C28_NoLostUpdate ==
    [][\A w \in Workers :
          (pc[Work(w)] = "inc_store" /\ pc'[Work(w)] # "inc_store")
             => reconnect2_attempt' = reconnect2_attempt + 1]_vars

\* ---- C29 (src/api.py lines 416-426)
\* C29: the step that receives a frame 3, 40 or 41 adds only that frame to the
\* log (nothing is sent, the handler is not called) and changes nothing of the
\* client but the liveness timestamp.
C29_MarkersIgnored ==
    [][(RxCount' > RxCount
          /\ Dispatch(wire'[Len(wire) + 1].frame) \in {"ack", "opened", "closed"})
         => /\ Len(wire') = Len(wire) + 1
            /\ last2_rx_ts' = now
            /\ UNCHANGED <<tokenVars, notifications_handler, ws_notif, ws2_should_run,
                           pingVars, watchdog2_thread, reconnect2_attempt>>
            /\ UNCHANGED <<tstate, pc, wl>>]_vars

\* The three frames were received one after the other, with a token held and a
\* handler registered, and nothing else is in the log.
C29_Witness ==
    /\ Len(wire) = 3
    /\ IsRx(1) /\ Dispatch(wire[1].frame) = "ack"
    /\ IsRx(2) /\ Dispatch(wire[2].frame) = "opened"
    /\ IsRx(3) /\ Dispatch(wire[3].frame) = "closed"
    /\ access_token # NoToken
    /\ notifications_handler = "gui"

\* ---- C30 (src/api.py lines 106-134; src/tray_app.py lines 1240-1267)
LastSignIn ==
    IF \E i \in 1..Len(wire) : wire[i].ev = "signin"
    THEN CHOOSE i \in 1..Len(wire) :
            wire[i].ev = "signin" /\ \A j \in (i + 1)..Len(wire) : wire[j].ev # "signin"
    ELSE 0
SinceSignIn(e) == {i \in (LastSignIn + 1)..Len(wire) : wire[i].ev = e}
ListingRaised == \E i \in SinceSignIn("list") : wire[i].result = "raises"

\* C30: a session is started only after a successful sign-in whose list was
\* requested, and then the handler, if registered and the list did not raise,
\* has been called exactly once with bootstrapNotifications; the handler is
\* never called twice for one sign-in; the bootstrap always goes on to connect;
\* a failed sign-in leaves the GUI thread idle with no transport created.
C30_BootstrapBeforeSession ==
    [][/\ (\E t \in Transports : pc[Sess(t)] # "connecting" /\ pc'[Sess(t)] = "connecting")
             => /\ LastSignIn > 0 /\ wire[LastSignIn].ok
                /\ Cardinality(SinceSignIn("list")) = 1
                /\ Cardinality(SinceSignIn("handle")) =
                      IF notifications_handler # "none" /\ ~ListingRaised THEN 1 ELSE 0
                /\ \A i \in SinceSignIn("handle") : wire[i].etype = BootstrapType
       /\ Cardinality(SinceSignIn("handle")') <= 1
       /\ (pc[Main] = "bootstrap" /\ pc'[Main] # "bootstrap")
             => (pc'[Main] = "conn_guard" /\ tstate' = tstate)
       /\ (LastSignIn' # LastSignIn /\ ~wire'[LastSignIn'].ok)
             => (pc'[Main] = "idle" /\ tstate' = tstate /\ UNCHANGED tokenVars)]_vars

\* After a sign-in whose handler raises, and one whose list could not be
\* retrieved, a session has been started.
C30_Witness ==
    /\ notifications_handler = "faulty"
    /\ ListingRaised
    /\ Cardinality({i \in 1..Len(wire) : wire[i].ev = "handle"}) = 1
    /\ \E t \in Transports : pc[Sess(t)] = "connecting" /\ ws_notif = t
    /\ pc[Main] = "idle"

\* ---- C31 (src/api.py lines 235-256, 368-375, 288-289)
\* transport t has been replaced: self.ws_notif refers to a newer transport that
\* is connecting or connected
Superseded(t) ==
    /\ ws_notif # 0
    /\ ws_notif # t
    /\ tstate[ws_notif] \in {"connecting", "connected"}

\* C31: a step of on_ws2_close made for a superseded transport does not clear
\* the should-run flag of the newer session (which is also what keeps its
\* watchdog loop running) and does not go on to _schedule2_reconnect.
C31_StaleCloseHarmless ==
    [][\A t \in Transports :
          (/\ Superseded(t)
           /\ pc[Sess(t)] \in {"close_stop", "close_check"}
           /\ pc'[Sess(t)] # pc[Sess(t)])
             => /\ ws2_should_run => ws2_should_run'
                /\ pc'[Sess(t)] # "sched_guard"]_vars

\* ---- C32 (src/api.py lines 283-309, 335-339, 355-359)
\* C32: while the current transport is connected, on_ws2_open has returned and no
\* shutdown has been requested, the should-run flag is set and the thread that
\* self._watchdog2_thread refers to is alive.
C32_OpenSessionGuarded ==
    \A t \in Transports :
       (/\ ws_notif = t
        /\ tstate[t] = "connected"
        /\ pc[Sess(t)] = "read"
        /\ ~ShutdownRequested)
          => ws2_should_run /\ WatchdogAlive

\* ---- C33 (src/api.py lines 314-353, 136-149, 66-72)
\* C33: a do_reconnect worker never ends leaving its cycle stuck: when its thread
\* ends, either it has started a session, or the transport is connected, or the
\* in-progress mark is clear, or another worker is alive to carry the cycle on.
C33_NoStuckCycle ==
    [][\A w \in Workers :
          (pc[Work(w)] # "unused" /\ pc'[Work(w)] = "unused")
             => \/ ws_notif' # 0 /\ pc'[Sess(ws_notif')] = "connecting"
                \/ Connected'
                \/ ~ws2_should_run'
                \/ AliveWorkers' # {}]_vars

\* ---- C34 (src/api.py lines 387-397, 44-46)
\* json.loads, .get or int() raises on the handshake body
ParseFails(b) ==
    ~ /\ Absent(b, "pingInterval") \/ Numeric(b, "pingInterval")
      /\ Absent(b, "pingTimeout") \/ Numeric(b, "pingTimeout")

\* C34: in every reachable state the ping interval is at least 5 s and the ping
\* timeout at least 10 s, and after a handshake frame that failed to parse they
\* are exactly 25 s and 60 s.
C34_PingFloors ==
    /\ ping2_interval_sec >= 5
    /\ ping2_timeout_sec >= 10
    /\ (wire # <<>> /\ ParseFails(wire[LastRx].frame.body))
          => ping2_interval_sec = 25 /\ ping2_timeout_sec = 60

\* A handshake with an interval of zero and a negative timeout has been adopted
\* at the floors, after one that asked for 60 s.
C34_Witness ==
    /\ RxCount = 2
    /\ LET a == wire[CHOOSE i \in 1..Len(wire) : IsRx(i) /\ i # LastRx].frame.body
           b == wire[LastRx].frame.body
       IN /\ Numeric(a, "pingInterval") /\ a.f["pingInterval"].v = 60000
          /\ Numeric(b, "pingInterval") /\ b.f["pingInterval"].v = 0
          /\ Numeric(b, "pingTimeout") /\ b.f["pingTimeout"].v = -1500
    /\ ping2_interval_sec = 5
    /\ ping2_timeout_sec = 10

C36_RefreshTokens ==
    [][/\ refresh_token' = refresh_token
       /\ IF /\ wire' # wire
             /\ wire'[Len(wire')].ev = "return"
             /\ wire'[Len(wire')].result
          THEN /\ access_token' \in Tokens
               /\ token_expiry' = now + ExpireIn
               /\ UNCHANGED <<notifications_handler, ws_notif, ws2_should_run, pingVars,
                              watchdog2_thread, last2_rx_ts, reconnect2_attempt>>
          ELSE UNCHANGED clientVars]_vars

\* A refresh has returned True after one request: the access token is the one
\* of the response, the expiry was moved, the refresh token is the one held.
C36_Witness ==
    /\ pc[Caller] = "done"
    /\ wire[Len(wire)].ev = "return" /\ wire[Len(wire)].result
    /\ CountEv("post") = 1
    /\ access_token = "tok2"
    /\ refresh_token = "tok1"
    /\ now > Now0
    /\ token_expiry = now + ExpireIn

====
